---- MODULE Spec2Model ----
(***************************************************************************)
(* Job pipeline and progress streaming of the report generator.            *)
(*                                                                         *)
(* The observer side (frontend/src/App.tsx, the EventSource wrapper and    *)
(* the step list of ProcessingStatus.tsx) is modelled from its source.     *)
(* The server side (Job Store, Pipeline Orchestrator, Progress             *)
(* Broadcaster) lives in backend/main.py, which is not part of the source  *)
(* tree at hand; it is modelled from the specification's sections 3-5.     *)
(*                                                                         *)
(* An upload u that the server accepts creates job u (processing_id and    *)
(* upload_id are both u).  Subscriptions (one EventSource with its server  *)
(* stream each) are numbered in the order in which they are opened.        *)
(***************************************************************************)
EXTENDS Integers, Sequences, FiniteSets, TLC

\* Number of uploads the observer starts (each accepted upload is one job).
MaxUploads == 1

\* Number of jobs the server runs when they are uploaded without an observer.
MaxJobs == 2

Jobs == 1..(IF MaxJobs > MaxUploads THEN MaxJobs ELSE MaxUploads)

Uploads == 1..MaxUploads

\* Number of subscriptions the observer opens.
MaxSubs == 2

Subs == 1..MaxSubs

VARIABLES
  uploads,     \* uploads[u]: the POST /api/upload request of upload u
  rec,         \* Job Store: rec[j] is the Job Record of job j
  pc,          \* Orchestrator: pc[j] = [at, i], the position in the stage sequence
  calls,       \* calls[j]: the stage collaborators invoked for job j, in order
  ceilLog,     \* ceilLog[j]: the progress values merged at stage completions
  chanClosed,  \* chanClosed[j]: the Orchestrator signalled the close of j's channel
  nsub,        \* number of subscriptions opened so far
  sub,         \* sub[s]: subscription s (an EventSource and its server stream)
  chan,        \* chan[s]: the events emitted on sub[s] and not yet dispatched
  got,         \* got[s]: the events the EventSource of sub[s] dispatched, in order
  ps,          \* processingState of App
  esRef,       \* eventSourceRef.current: 0 (null) or a subscription
  effPending,  \* the SSE effect of the last commit has not run yet
  mounted,     \* App is mounted
  cache,       \* History Cache: the reports stored under CACHE_KEY, newest first
  arrival,     \* the uploadIds now in the cache, in the order they entered it
  upserted,    \* the reports passed to addReport so far, in call order
  edits,       \* calls so far other than addReport of a fresh uploadId
  statsReq,    \* the uploadIds whose getDataStats call has not returned yet
  shown,       \* ProcessingStatus: the step statuses derived so far in steps.map
  selectedFile, \* FileUpload: the file selected and not yet confirmed, or NoFile
  showConfirm, \* FileUpload: the confirmation panel is shown
  confirmed,   \* the files passed to onFileUpload so far, in call order
  reportReady, \* App: reportReady
  dataStats,   \* App: the job whose statistics dataStats holds (0: the initial zeros)
  fileName,    \* App: currentFileName and currentFileSize, as the upload they belong to
  capName,     \* capName[s]: currentFileName as closed over by the handlers of sub[s]
  reqName,     \* reqName[j]: the file name the pending getDataStats continuation holds
  entryFile    \* entryFile[j]: filename and fileSize of the report App stored for j

vars == <<uploads, rec, pc, calls, ceilLog, chanClosed, nsub, sub, chan, got,
          ps, esRef, effPending, mounted, cache, arrival, upserted, edits, statsReq,
          shown, selectedFile, showConfirm, confirmed, reportReady, dataStats,
          fileName, capName, reqName, entryFile>>

serverVars == <<rec, pc, calls, ceilLog, chanClosed>>

cacheVars == <<cache, arrival, upserted, edits>>

uploadVars == <<selectedFile, showConfirm, confirmed>>

-----------------------------------------------------------------------------
(* Job Record and Job Store (specification, section 3 and 4.1)             *)

StageOrder == <<"intake", "cleaning", "deduplication", "analysis", "rendering">>

NumStages == Len(StageOrder)

\* Ceilings with the analysis stage ending at 80.
CeilingLow == <<10, 30, 50, 80, 100>>

\* Progress ceiling of each stage, and the floor a stage starts from.
Ceiling == <<10, 30, 50, 85, 100>>

Floor(i) == IF i = 1 THEN 0 ELSE Ceiling[i - 1]

Terminal(r) == r.status \in {"completed", "failed"}

NoRecord == [status |-> "absent", stage |-> "none", progress |-> 0,
             errorDetail |-> "", updatedAt |-> 0]

\* create(jobId): a fresh record.
NewRecord == [status |-> "pending", stage |-> "intake", progress |-> 0,
              errorDetail |-> "", updatedAt |-> 1]

\* A guard that does not look at progress.
InvalidTransitionTerminalOnly(r, upd) ==
  \/ r.status = "absent"
  \/ Terminal(r)

\* merge's guard: terminal immutability and progress monotonicity.
InvalidTransition(r, upd) ==
  \/ r.status = "absent"
  \/ Terminal(r)
  \/ ("progress" \in DOMAIN upd /\ upd.progress < r.progress)

\* merge on one record: only the supplied fields, updatedAt stamped.
MergeRecord(r, upd) ==
  IF InvalidTransition(r, upd) THEN r
  ELSE [f \in DOMAIN r |->
          IF f = "updatedAt" THEN r.updatedAt + 1
          ELSE IF f \in DOMAIN upd THEN upd[f] ELSE r[f]]

\* A merge that writes through to every record of the store.
MergeAll(store, j, upd) == [k \in DOMAIN store |-> MergeRecord(store[k], upd)]

\* merge(jobId, partialUpdate) on the store.
Merge(store, j, upd) == [store EXCEPT ![j] = MergeRecord(store[j], upd)]

-----------------------------------------------------------------------------
(* What goes over the wire (ProcessingStatusResponse, api.ts)              *)

\* The step identifiers the observer knows, in pipeline order.
steps == <<"upload", "clean", "dedupe", "workflow", "report">>

StageIndex(stage) == CHOOSE i \in 1..NumStages : StageOrder[i] = stage

\* current_step of a snapshot: the observer's name of the record's stage.
WireStep(stage) ==
  IF stage \in {"completed", "error"} THEN stage ELSE steps[StageIndex(stage)]

\* A snapshot that carries the Job Record's status word for word.
WireStatusVerbatim(status) == status

\* status of a snapshot: processing_status.status is 'processing' until the
\* job ends (schema default), 'completed' or 'failed' afterwards.
WireStatus(status) ==
  IF status \in {"pending", "running"} THEN "processing" ELSE status

\* The note a failing collaborator of stage i leaves in errorDetail.
FailureNote == <<"intake failed", "cleaning failed", "deduplication failed",
                 "analysis failed", "rendering failed">>

BlankEvent == [type |-> "connected", upload_id |-> 0, current_step |-> "",
               status |-> "", progress |-> 0, error |-> "", seq |-> 0]

ConnectedEvent == BlankEvent

\* progress: the full current Job Record snapshot of job j.
ProgressEvent(j, r) ==
  [type |-> "progress", upload_id |-> j, current_step |-> WireStep(r.stage),
   status |-> WireStatus(r.status), progress |-> r.progress,
   error |-> r.errorDetail, seq |-> r.updatedAt]

\* error: carries errorDetail (read by the observer as data.message).
ErrorEvent(j, r) ==
  [BlankEvent EXCEPT !.type = "error", !.upload_id = j,
                     !.error = r.errorDetail, !.seq = r.updatedAt]

TimeoutEvent == [BlankEvent EXCEPT !.type = "timeout"]

FinishedEvent(j, r) ==
  [BlankEvent EXCEPT !.type = "finished", !.upload_id = j,
                     !.status = WireStatus(r.status), !.seq = r.updatedAt]

-----------------------------------------------------------------------------
(* Progress Broadcaster (specification, section 4.3 and 5)                 *)

NoSub == [job |-> 0, cli |-> "none", srv |-> FALSE, late |-> FALSE]

\* The events of a merge that brought job j's record to r.
EventsOfMerge(j, r) ==
  IF r.status = "failed" THEN <<ProgressEvent(j, r), ErrorEvent(j, r)>>
  ELSE <<ProgressEvent(j, r)>>

\* A fan-out that keeps queueing for subscriptions that are detached.
FanoutToAll(subs, ch, j, evs) ==
  [s \in DOMAIN ch |-> IF subs[s].job = j THEN ch[s] \o evs ELSE ch[s]]

\* Fan out to the subscriptions attached to job j; events for a detached
\* subscriber are dropped.
Fanout(subs, ch, j, evs) ==
  [s \in DOMAIN ch |->
     IF subs[s].job = j /\ subs[s].srv THEN ch[s] \o evs ELSE ch[s]]

\* An attach that does not look at the job's state.
AttachNoCheck(j, r) == <<ConnectedEvent>>

\* What a subscription is sent when it attaches to a job whose record is r:
\* connected, and finished at once when the job has already ended.
AttachEvents(j, r) ==
  IF Terminal(r) THEN <<ConnectedEvent, FinishedEvent(j, r)>>
  ELSE <<ConnectedEvent>>

-----------------------------------------------------------------------------
(* The observer: App.tsx                                                   *)
(*                                                                         *)
(* The handlers are operators on the observer's world w = [ps, es, eff,    *)
(* n, sub, chan]: processingState, eventSourceRef.current, whether the SSE *)
(* effect of the last commit is still to run, and the subscriptions with   *)
(* their events in flight.  React runs the passive effects of a commit     *)
(* before it renders the next state, so every state update first flushes   *)
(* a pending effect.                                                       *)

\* selectedFile === null
NoFile == [type |-> "", name |-> <<>>]

IdleState == [processingId |-> 0, uploadId |-> 0, currentStep |-> "idle",
              status |-> "idle", progress |-> 0, errorMessage |-> ""]

World == [ps |-> ps, es |-> esRef, eff |-> effPending, n |-> nsub,
          sub |-> sub, chan |-> chan]

\* The dependency list of the SSE effect.
Deps(p) == <<p.processingId, p.status>>

\* The reference is dropped without close().
CloseRefForget(w) == [w EXCEPT !.es = 0]

\* eventSourceRef.current.close(); eventSourceRef.current = null.  A closed
\* EventSource dispatches nothing more, and the server detaches it.
CloseRef(w) ==
  IF w.es = 0 THEN w
  ELSE [w EXCEPT !.sub[w.es].cli = "closed", !.sub[w.es].srv = FALSE,
                 !.chan[w.es] = <<>>, !.es = 0]

\* apiService.createProgressStream: a new EventSource on job j, which the
\* Broadcaster attaches to the job's channel.
CreateProgressStream(w, j) ==
  IF w.n >= MaxSubs THEN [w EXCEPT !.n = w.n + 1]
  ELSE [w EXCEPT !.n = w.n + 1,
                 !.sub[w.n + 1] = [job |-> j, cli |-> "open",
                                   srv |-> ~Terminal(rec[j]),
                                   late |-> rec[j].status = "completed"],
                 !.chan[w.n + 1] = AttachEvents(j, rec[j]),
                 !.es = w.n + 1]

\* The body of the SSE effect.
EffectBody(w) ==
  IF w.ps.processingId # 0 /\ w.ps.status = "processing"
  THEN CreateProgressStream(CloseRef(w), w.ps.processingId)
  ELSE w

\* A commit whose dependencies changed: the previous cleanup, then the body.
Flush(w) == IF w.eff THEN [EffectBody(CloseRef(w)) EXCEPT !.eff = FALSE] ELSE w

\* setProcessingState(p), rendered and committed.
SetState(w, p) ==
  [Flush(w) EXCEPT !.ps = p, !.eff = (Deps(p) # Deps(w.ps))]

\* case 'progress'
OnProgress(w, e) ==
  SetState(w, [w.ps EXCEPT !.uploadId = e.upload_id,
                           !.currentStep = e.current_step,
                           !.status = e.status,
                           !.progress = e.progress,
                           !.errorMessage = e.error])

\* A 'finished' handler that leaves the stream open.
OnFinishedKeepOpen(w, e) == w

\* case 'finished'
OnFinished(w, e) == CloseRef(w)

\* case 'error'
OnErrorEvent(w, e) ==
  SetState(CloseRef(w), [w.ps EXCEPT !.status = "failed", !.errorMessage = e.error])

\* case 'timeout'
OnTimeout(w, e) ==
  SetState(CloseRef(w), [w.ps EXCEPT !.status = "failed",
                                     !.errorMessage = "SSE timeout"])

\* A handler that asks for the statistics of every job that has ended.
StartsFetchAnyEnd(e) ==
  e.type = "progress" /\ e.status \in {"completed", "failed"} /\ e.upload_id # 0

\* handleProgress, case 'progress': data.status === 'completed' &&
\* data.upload_id starts apiService.getDataStats(data.upload_id).
StartsFetch(e) ==
  e.type = "progress" /\ e.status = "completed" /\ e.upload_id # 0

\* A handleProgress whose switch has no case 'error'.
HandleProgressNoErrorCase(w, e) ==
  CASE e.type = "connected" -> w
    [] e.type = "progress"  -> OnProgress(w, e)
    [] e.type = "finished"  -> OnFinished(w, e)
    [] e.type = "error"     -> w
    [] e.type = "timeout"   -> OnTimeout(w, e)

\* handleProgress
HandleProgress(w, e) ==
  CASE e.type = "connected" -> w
    [] e.type = "progress"  -> OnProgress(w, e)
    [] e.type = "finished"  -> OnFinished(w, e)
    [] e.type = "error"     -> OnErrorEvent(w, e)
    [] e.type = "timeout"   -> OnTimeout(w, e)

\* A handleError that sets the status alone.
HandleErrorNoMessage(w) ==
  SetState(CloseRef(w), [w.ps EXCEPT !.status = "failed"])

\* handleError
HandleError(w) ==
  SetState(CloseRef(w), [w.ps EXCEPT !.status = "failed",
                                     !.errorMessage = "connection error"])

\* A message whose data is not valid JSON.
GarbledEvent == [BlankEvent EXCEPT !.type = "garbled"]

\* An onmessage without the try/catch: whatever arrives is handed on as a
\* progress update.
OnMessageNoCatch(w, m) ==
  IF m.type = "garbled" THEN OnProgress(w, m) ELSE HandleProgress(w, m)

\* eventSource.onmessage of createProgressStream: JSON.parse, then
\* onProgress(data); a message that does not parse goes to onError.
OnMessage(w, m) ==
  IF m.type = "garbled" THEN HandleError(w) ELSE HandleProgress(w, m)

\* An EventSource that dispatches the newest message first.
DispatchNewest(q) == q[Len(q)]

\* eventSource.onmessage is called with the oldest message in flight.
Dispatch(q) == Head(q)

\* The handlers' effect on the state; a run that would open more than
\* MaxSubs subscriptions is not followed.
Install(w) ==
  /\ mounted
  /\ UNCHANGED mounted
  /\ w.n <= MaxSubs
  /\ nsub' = w.n
  /\ ps' = w.ps
  /\ esRef' = w.es
  /\ effPending' = w.eff
  /\ sub' = w.sub
  /\ chan' = w.chan
  /\ capName' = [s \in Subs |->
                   IF sub[s].cli = "none" /\ w.sub[s].cli # "none" THEN fileName
                   ELSE capName[s]]

-----------------------------------------------------------------------------
(* Pipeline Orchestrator (specification, section 4.2)                      *)

NotStarted == [at |-> "none", i |-> 0]

\* Entering stage i.
EnterUpdate(i) == [stage |-> StageOrder[i], status |-> "running", progress |-> Floor(i)]

\* Stage i completed.
SuccessUpdate(i) == [progress |-> Ceiling[i]]

\* Stage i failed.
FailureUpdate(i) == [status |-> "failed", stage |-> "error", errorDetail |-> FailureNote[i]]

\* The last merge of a job whose stages all succeeded.
FinalUpdate == [stage |-> "completed", status |-> "completed", progress |-> 100]

\* An Orchestrator that runs the failed stage again.
RetryAfterFailure(i) == [at |-> "enter", i |-> i]

\* After a failure the Orchestrator halts: only the channel is left to close.
AfterFailure(i) == [at |-> "close", i |-> i]

\* An Orchestrator that skips a stage once the second has completed.
SkipAfterSuccess(i) ==
  IF i = 2 THEN [at |-> "enter", i |-> 4]
  ELSE IF i < NumStages THEN [at |-> "enter", i |-> i + 1]
  ELSE [at |-> "final", i |-> i]

\* After stage i succeeded: the next stage, or the final merge.
AfterSuccess(i) ==
  IF i < NumStages THEN [at |-> "enter", i |-> i + 1] ELSE [at |-> "final", i |-> i]

-----------------------------------------------------------------------------
(* History Cache: CacheService (services/cache.ts).  A report is kept as   *)
(* its uploadId and its stats; the other fields of CachedReport are        *)
(* replaced and dropped together with them.                                *)

MAX_CACHE_SIZE == 50

\* uploadIds passed to the cache.
MaxIds == 52

\* Calls other than addReport of the next fresh uploadId.
MaxEdits == 1

Ids == 1..MaxIds

StatsValues == {1, 2}

Report(id, st) == [uploadId |-> id, stats |-> st]

\* A search that never finds the uploadId.
FindFromNever(reports, id, k) == 0

RECURSIVE FindFrom(_, _, _)

\* The first index from k on whose report has the uploadId; 0 stands for -1.
FindFrom(reports, id, k) ==
  IF k > Len(reports) THEN 0
  ELSE IF reports[k].uploadId = id THEN k
  ELSE FindFrom(reports, id, k + 1)

\* A findIndex that never looks at the first report.
FindIndexSkipFirst(reports, id) == FindFrom(reports, id, 2)

\* reports.findIndex(r => r.uploadId === uploadId)
FindIndex(reports, id) == FindFrom(reports, id, 1)

\* No limit on the list.
SpliceNever(reports) == reports

\* reports.splice(MAX_CACHE_SIZE) when the list is longer than that.
Splice(reports) ==
  IF Len(reports) > MAX_CACHE_SIZE THEN SubSeq(reports, 1, MAX_CACHE_SIZE) ELSE reports

\* An addReport that always puts the report in front.
AddReportInFront(reports, report) == Splice(<<report>> \o reports)

\* An addReport that adds a new report at the end.
AddReportAtEnd(reports, report) ==
  IF FindIndex(reports, report.uploadId) # 0
  THEN [reports EXCEPT ![FindIndex(reports, report.uploadId)] = report]
  ELSE Splice(Append(reports, report))

\* An addReport that drops the newest entry beyond capacity.
AddReportDropNewest(reports, report) ==
  IF FindIndex(reports, report.uploadId) # 0
  THEN [reports EXCEPT ![FindIndex(reports, report.uploadId)] = report]
  ELSE IF Len(reports) >= MAX_CACHE_SIZE THEN <<report>> \o Tail(reports)
  ELSE <<report>> \o reports

\* CacheService.addReport
AddReport(reports, report) ==
  IF FindIndex(reports, report.uploadId) # 0
  THEN [reports EXCEPT ![FindIndex(reports, report.uploadId)] = report]
  ELSE Splice(<<report>> \o reports)

NoReport == [uploadId |-> 0, stats |-> 0]

\* CacheService.getReport; NoReport stands for undefined.
GetReport(reports, id) ==
  IF FindIndex(reports, id) = 0 THEN NoReport ELSE reports[FindIndex(reports, id)]

\* A removal that also drops the entries stored before the one removed.
RemoveReportAndOlder(reports, id) == SelectSeq(reports, LAMBDA r : r.uploadId > id)

\* CacheService.removeReport: reports.filter(r => r.uploadId !== uploadId)
RemoveReport(reports, id) == SelectSeq(reports, LAMBDA r : r.uploadId # id)

\* CacheService.clearCache
ClearCache == <<>>

\* A list that keeps the oldest entries instead of the newest.
GetRecentReportsOldest(reports, limit) ==
  SubSeq(reports, (IF limit < Len(reports) THEN Len(reports) - limit ELSE 0) + 1,
         Len(reports))

\* CacheService.getRecentReports(limit): reports.slice(0, limit), limit >= 0.
GetRecentReports(reports, limit) ==
  SubSeq(reports, 1, IF limit < Len(reports) THEN limit ELSE Len(reports))

IdsOf(reports) == {reports[k].uploadId : k \in 1..Len(reports)}

\* The next uploadId that was never passed to the cache.
NextFresh == Cardinality({upserted[k].uploadId : k \in 1..Len(upserted)}) + 1

\* id is the next fresh uploadId (at most edits of the calls so far passed
\* an uploadId again).
IsNextFresh(id) == id > Len(upserted) - edits /\ id = NextFresh

\* The record of who entered the cache when, kept beside the cache: a new
\* uploadId is added at the end, an uploadId no longer stored is dropped.
Arrived(arr, id, reports) ==
  SelectSeq(IF \E k \in 1..Len(arr) : arr[k] = id THEN arr ELSE Append(arr, id),
            LAMBDA x : x \in IdsOf(reports))

-----------------------------------------------------------------------------
(* The step list of ProcessingStatus.tsx                                   *)

\* steps.findIndex(s => s.id === id), counted from 1; 0 stands for -1.
StepIndex(id) ==
  IF \E k \in 1..Len(steps) : steps[k] = id
  THEN CHOOSE k \in 1..Len(steps) : steps[k] = id
  ELSE 0

\* A getStepStatus that puts a global error on the first step.
GetStepStatusErrorFirst(stepId, currentStep, status) ==
  IF status = "failed" /\ currentStep = "error"
  THEN (IF StepIndex(stepId) = 1 THEN "error" ELSE "completed")
  ELSE IF status = "failed" /\ StepIndex(stepId) = StepIndex(currentStep) THEN "error"
  ELSE IF StepIndex(stepId) < StepIndex(currentStep) THEN "completed"
  ELSE IF StepIndex(stepId) = StepIndex(currentStep) /\ status = "processing"
  THEN "processing"
  ELSE "pending"

\* getStepStatus(stepId) of a ProcessingStatus rendered with currentStep and
\* status.
GetStepStatus(stepId, currentStep, status) ==
  LET stepIndex == StepIndex(stepId)
      currentIndex == StepIndex(currentStep)
  IN IF status = "failed" /\ currentStep = "error"
     THEN (IF stepIndex = Len(steps) THEN "error"
           ELSE IF stepIndex < Len(steps) THEN "completed" ELSE "pending")
     ELSE IF status = "failed" /\ stepIndex = currentIndex THEN "error"
     ELSE IF currentStep = "completed" /\ status = "completed" THEN "completed"
     ELSE IF \/ stepIndex < currentIndex
             \/ stepIndex = currentIndex /\ status = "completed"
     THEN "completed"
     ELSE IF stepIndex = currentIndex /\ status = "processing" THEN "processing"
     ELSE "pending"

\* steps.map(step => getStepStatus(step.id)): the statuses of all steps.
StepStatuses(currentStep, status) ==
  [k \in 1..Len(steps) |-> GetStepStatus(steps[k], currentStep, status)]

-----------------------------------------------------------------------------
(* Initial state                                                           *)

Init ==
  /\ uploads = [u \in Jobs |-> "unused"]
  /\ rec = [j \in Jobs |-> NoRecord]
  /\ pc = [j \in Jobs |-> NotStarted]
  /\ calls = [j \in Jobs |-> <<>>]
  /\ ceilLog = [j \in Jobs |-> <<>>]
  /\ chanClosed = [j \in Jobs |-> FALSE]
  /\ nsub = 0
  /\ sub = [s \in Subs |-> NoSub]
  /\ chan = [s \in Subs |-> <<>>]
  /\ got = [s \in Subs |-> <<>>]
  /\ ps = IdleState
  /\ esRef = 0
  /\ effPending = FALSE
  /\ mounted = TRUE
  /\ cache = <<>>
  /\ arrival = <<>>
  /\ upserted = <<>>
  /\ edits = 0
  /\ statsReq = {}
  /\ shown = <<>>
  /\ selectedFile = NoFile
  /\ showConfirm = FALSE
  /\ confirmed = <<>>
  /\ reportReady = FALSE
  /\ dataStats = 0
  /\ fileName = 0
  /\ capName = [s \in Subs |-> 0]
  /\ reqName = [j \in Jobs |-> 0]
  /\ entryFile = [j \in Jobs |-> 0]

-----------------------------------------------------------------------------
(* Upload: handleFileUpload and the upload intake                          *)

\* handleFileUpload up to the await of apiService.uploadFile.
StartUpload(u) ==
  /\ uploads[u] = "unused"
  /\ \A v \in Uploads : v < u => uploads[v] # "unused"
  /\ uploads' = [uploads EXCEPT ![u] = "sent"]
  /\ Install(SetState(World, [processingId |-> 0, uploadId |-> 0,
                              currentStep |-> "upload", status |-> "processing",
                              progress |-> 0, errorMessage |-> ""]))
  /\ fileName' = u
  /\ reportReady' = FALSE
  /\ UNCHANGED <<serverVars, got, cacheVars, statsReq, shown,
                 uploadVars, dataStats, reqName, entryFile>>

\* Upload intake accepts the file: the job is created and the Orchestrator
\* is started; the response travels back.
ServerAccept(u) ==
  /\ uploads[u] = "sent"
  /\ uploads' = [uploads EXCEPT ![u] = "accepted"]
  /\ rec' = [rec EXCEPT ![u] = NewRecord]
  /\ pc' = [pc EXCEPT ![u] = [at |-> "enter", i |-> 1]]
  /\ UNCHANGED <<calls, ceilLog, chanClosed, nsub, sub, chan, got, ps, esRef, effPending, mounted, cacheVars, statsReq, shown,
                 uploadVars, reportReady, dataStats, fileName, capName, reqName, entryFile>>

\* Upload intake rejects the file (ValidationError): no job is created.
ServerReject(u) ==
  /\ uploads[u] = "sent"
  /\ uploads' = [uploads EXCEPT ![u] = "rejected"]
  /\ UNCHANGED <<serverVars, nsub, sub, chan, got, ps, esRef, effPending, mounted, cacheVars, statsReq, shown,
                 uploadVars, reportReady, dataStats, fileName, capName, reqName, entryFile>>

\* handleFileUpload after the await: the response carries the identifiers.
UploadResponse(u) ==
  /\ uploads[u] = "accepted"
  /\ uploads' = [uploads EXCEPT ![u] = "done"]
  /\ Install(SetState(World, [ps EXCEPT !.processingId = u, !.uploadId = u,
                                        !.progress = 10]))
  /\ UNCHANGED <<serverVars, got, cacheVars, statsReq, shown,
                 uploadVars, reportReady, dataStats, fileName, reqName, entryFile>>

\* A catch that only logs the error.
UploadFailedSilent(u) ==
  /\ uploads[u] = "rejected"
  /\ uploads' = [uploads EXCEPT ![u] = "failed"]
  /\ Install(World)
  /\ UNCHANGED <<serverVars, got, cacheVars, statsReq, shown,
                 uploadVars, reportReady, dataStats, fileName, reqName, entryFile>>

\* handleFileUpload's catch.
UploadFailed(u) ==
  /\ uploads[u] = "rejected"
  /\ uploads' = [uploads EXCEPT ![u] = "failed"]
  /\ Install(SetState(World, [ps EXCEPT !.currentStep = "upload", !.status = "failed",
                                        !.errorMessage = "upload failed"]))
  /\ UNCHANGED <<serverVars, got, cacheVars, statsReq, shown,
                 uploadVars, reportReady, dataStats, fileName, reqName, entryFile>>

-----------------------------------------------------------------------------
(* The SSE effect and the stream's callbacks                               *)

\* React runs the pending SSE effect.
RunEffect ==
  /\ effPending
  /\ Install(Flush(World))
  /\ UNCHANGED <<uploads, serverVars, got, cacheVars, statsReq, shown,
                 uploadVars, reportReady, dataStats, fileName, reqName, entryFile>>

\* eventSource.onmessage: the next message of subscription s is dispatched
\* and handed to onProgress.
Deliver(s) ==
  /\ sub[s].cli = "open"
  /\ chan[s] # <<>>
  /\ got' = [got EXCEPT ![s] = Append(got[s], Dispatch(chan[s]))]
  /\ Install(OnMessage([World EXCEPT !.chan[s] = Tail(chan[s])],
                       Dispatch(chan[s])))
  /\ statsReq' = IF StartsFetch(Dispatch(chan[s]))
                  THEN statsReq \cup {Dispatch(chan[s]).upload_id}
                  ELSE statsReq
  /\ reqName' = IF StartsFetch(Dispatch(chan[s]))
                 THEN [reqName EXCEPT ![Dispatch(chan[s]).upload_id] = capName[s]]
                 ELSE reqName
  /\ UNCHANGED <<uploads, serverVars, cacheVars, shown,
                 uploadVars, reportReady, dataStats, fileName, entryFile>>

\* apiService.getDataStats(upload_id) returns the statistics: the .then of
\* handleProgress stores the report in the History Cache.
StatsOk(j) ==
  /\ j \in statsReq
  /\ statsReq' = statsReq \ {j}
  /\ cache' = AddReport(cache, Report(j, 1))
  /\ upserted' = Append(upserted, Report(j, 1))
  /\ arrival' = Arrived(arrival, j, cache')
  /\ dataStats' = IF mounted THEN j ELSE dataStats
  /\ reportReady' = IF mounted THEN TRUE ELSE reportReady
  /\ entryFile' = [entryFile EXCEPT ![j] = reqName[j]]
  /\ UNCHANGED <<uploads, serverVars, nsub, sub, chan, got, ps, esRef, effPending, mounted,
                 edits, shown,
                 uploadVars, fileName, capName, reqName>>

\* apiService.getDataStats(upload_id) fails: the .catch only logs.
StatsFail(j) ==
  /\ j \in statsReq
  /\ statsReq' = statsReq \ {j}
  /\ UNCHANGED <<uploads, serverVars, nsub, sub, chan, got, ps, esRef, effPending, mounted,
                 cacheVars, shown,
                 uploadVars, reportReady, dataStats, fileName, capName, reqName, entryFile>>

\* eventSource.onerror: the connection of subscription s fails.
ConnError(s) ==
  /\ sub[s].cli = "open"
  /\ Install(HandleError(World))
  /\ UNCHANGED <<uploads, serverVars, got, cacheVars, statsReq, shown,
                 uploadVars, reportReady, dataStats, fileName, reqName, entryFile>>

\* App is unmounted: the cleanups of its effects close the stream; nothing
\* is rendered any more.
Unmount ==
  /\ mounted
  /\ mounted' = FALSE
  /\ nsub' = nsub
  /\ ps' = ps
  /\ esRef' = CloseRef(World).es
  /\ effPending' = FALSE
  /\ sub' = CloseRef(World).sub
  /\ chan' = CloseRef(World).chan
  /\ UNCHANGED <<uploads, serverVars, got, cacheVars, statsReq, shown,
                 uploadVars, reportReady, dataStats, fileName, capName, reqName, entryFile>>

-----------------------------------------------------------------------------
(* The Orchestrator's steps; each merge is fanned out by the Broadcaster   *)

\* An Orchestrator that enters a stage only while a subscriber is attached.
EnterStageIfAttached(j) ==
  /\ pc[j].at = "enter"
  /\ \E s \in Subs : sub[s].job = j /\ sub[s].srv
  /\ rec' = Merge(rec, j, EnterUpdate(pc[j].i))
  /\ calls' = [calls EXCEPT ![j] = Append(calls[j], pc[j].i)]
  /\ pc' = [pc EXCEPT ![j].at = "run"]
  /\ chan' = Fanout(sub, chan, j, EventsOfMerge(j, rec'[j]))
  /\ UNCHANGED <<uploads, ceilLog, chanClosed, nsub, sub, got, ps, esRef, effPending, mounted, cacheVars, statsReq, shown,
                 uploadVars, reportReady, dataStats, fileName, capName, reqName, entryFile>>

EnterStage(j) ==
  /\ pc[j].at = "enter"
  /\ rec' = Merge(rec, j, EnterUpdate(pc[j].i))
  /\ calls' = [calls EXCEPT ![j] = Append(calls[j], pc[j].i)]
  /\ pc' = [pc EXCEPT ![j].at = "run"]
  /\ chan' = Fanout(sub, chan, j, EventsOfMerge(j, rec'[j]))
  /\ UNCHANGED <<uploads, ceilLog, chanClosed, nsub, sub, got, ps, esRef, effPending, mounted, cacheVars, statsReq, shown,
                 uploadVars, reportReady, dataStats, fileName, capName, reqName, entryFile>>

StageSucceeds(j) ==
  /\ pc[j].at = "run"
  /\ rec' = Merge(rec, j, SuccessUpdate(pc[j].i))
  /\ ceilLog' = [ceilLog EXCEPT ![j] = Append(ceilLog[j], rec'[j].progress)]
  /\ pc' = [pc EXCEPT ![j] = AfterSuccess(pc[j].i)]
  /\ chan' = Fanout(sub, chan, j, EventsOfMerge(j, rec'[j]))
  /\ UNCHANGED <<uploads, calls, chanClosed, nsub, sub, got, ps, esRef, effPending, mounted, cacheVars, statsReq, shown,
                 uploadVars, reportReady, dataStats, fileName, capName, reqName, entryFile>>

StageFails(j) ==
  /\ pc[j].at = "run"
  /\ rec' = Merge(rec, j, FailureUpdate(pc[j].i))
  /\ pc' = [pc EXCEPT ![j] = AfterFailure(pc[j].i)]
  /\ chan' = Fanout(sub, chan, j, EventsOfMerge(j, rec'[j]))
  /\ UNCHANGED <<uploads, calls, ceilLog, chanClosed, nsub, sub, got, ps, esRef, effPending, mounted, cacheVars, statsReq, shown,
                 uploadVars, reportReady, dataStats, fileName, capName, reqName, entryFile>>

FinalMerge(j) ==
  /\ pc[j].at = "final"
  /\ rec' = Merge(rec, j, FinalUpdate)
  /\ pc' = [pc EXCEPT ![j].at = "close"]
  /\ chan' = Fanout(sub, chan, j, EventsOfMerge(j, rec'[j]))
  /\ UNCHANGED <<uploads, calls, ceilLog, chanClosed, nsub, sub, got, ps, esRef, effPending, mounted, cacheVars, statsReq, shown,
                 uploadVars, reportReady, dataStats, fileName, capName, reqName, entryFile>>

\* The Orchestrator signals the Broadcaster to close the job's channel:
\* finished is emitted and the subscription ends.
CloseChannel(j) ==
  /\ pc[j].at = "close"
  /\ pc' = [pc EXCEPT ![j].at = "done"]
  /\ chanClosed' = [chanClosed EXCEPT ![j] = TRUE]
  /\ chan' = Fanout(sub, chan, j, <<FinishedEvent(j, rec[j])>>)
  /\ sub' = [s \in Subs |-> IF sub[s].job = j THEN [sub[s] EXCEPT !.srv = FALSE]
                                               ELSE sub[s]]
  /\ UNCHANGED <<uploads, rec, calls, ceilLog, nsub, got, ps, esRef, effPending, mounted, cacheVars, statsReq, shown,
                 uploadVars, reportReady, dataStats, fileName, capName, reqName, entryFile>>

\* The inactivity timer of subscription s expires while its job waits for
\* a collaborator: timeout is emitted and that subscription is closed.
Timeout(s) ==
  /\ sub[s].srv
  /\ pc[sub[s].job].at = "run"
  /\ chan' = [chan EXCEPT ![s] = chan[s] \o <<TimeoutEvent>>]
  /\ sub' = [sub EXCEPT ![s].srv = FALSE]
  /\ UNCHANGED <<uploads, serverVars, nsub, got, ps, esRef, effPending, mounted, cacheVars, statsReq, shown,
                 uploadVars, reportReady, dataStats, fileName, capName, reqName, entryFile>>

-----------------------------------------------------------------------------

Next ==
  \/ \E u \in Uploads : StartUpload(u)
  \/ \E u \in Jobs : ServerAccept(u)
  \/ \E u \in Jobs : ServerReject(u)
  \/ \E u \in Jobs : UploadResponse(u)
  \/ \E u \in Jobs : UploadFailed(u)
  \/ RunEffect
  \/ \E s \in Subs : Deliver(s)
  \/ \E j \in Jobs : StatsOk(j)
  \/ \E j \in Jobs : StatsFail(j)
  \/ \E s \in Subs : ConnError(s)
  \/ Unmount
  \/ \E j \in Jobs : EnterStage(j)
  \/ \E j \in Jobs : StageSucceeds(j)
  \/ \E j \in Jobs : StageFails(j)
  \/ \E j \in Jobs : FinalMerge(j)
  \/ \E j \in Jobs : CloseChannel(j)
  \/ \E s \in Subs : Timeout(s)

Spec == Init /\ [][Next]_vars

-----------------------------------------------------------------------------
(* One upload whose stream may carry a message that is not valid JSON.     *)

HasGarbled(log) == \E k \in 1..Len(log) : log[k].type = "garbled"

\* A message that does not parse arrives on the open stream s (at most one
\* such message per run is followed while it is in flight or dispatched).
GarbledMessage(s) ==
  /\ sub[s].cli = "open"
  /\ \A r \in Subs : ~HasGarbled(chan[r]) /\ ~HasGarbled(got[r])
  /\ chan' = [chan EXCEPT ![s] = Append(chan[s], GarbledEvent)]
  /\ UNCHANGED <<uploads, serverVars, nsub, sub, got, ps, esRef, effPending, mounted,
                 cacheVars, statsReq, shown, uploadVars, reportReady, dataStats,
                 fileName, capName, reqName, entryFile>>

NextGarble ==
  \/ Next
  \/ \E s \in Subs : GarbledMessage(s)

SpecGarble == Init /\ [][NextGarble]_vars

-----------------------------------------------------------------------------
(* Jobs uploaded by clients that never subscribe: the server side alone,   *)
(* with all of its jobs running concurrently.                              *)

InitJobs ==
  /\ uploads = [u \in Jobs |-> IF u <= MaxJobs THEN "sent" ELSE "unused"]
  /\ rec = [j \in Jobs |-> NoRecord]
  /\ pc = [j \in Jobs |-> NotStarted]
  /\ calls = [j \in Jobs |-> <<>>]
  /\ ceilLog = [j \in Jobs |-> <<>>]
  /\ chanClosed = [j \in Jobs |-> FALSE]
  /\ nsub = 0
  /\ sub = [s \in Subs |-> NoSub]
  /\ chan = [s \in Subs |-> <<>>]
  /\ got = [s \in Subs |-> <<>>]
  /\ ps = IdleState
  /\ esRef = 0
  /\ effPending = FALSE
  /\ mounted = TRUE
  /\ cache = <<>>
  /\ arrival = <<>>
  /\ upserted = <<>>
  /\ edits = 0
  /\ statsReq = {}
  /\ shown = <<>>
  /\ selectedFile = NoFile
  /\ showConfirm = FALSE
  /\ confirmed = <<>>
  /\ reportReady = FALSE
  /\ dataStats = 0
  /\ fileName = 0
  /\ capName = [s \in Subs |-> 0]
  /\ reqName = [j \in Jobs |-> 0]
  /\ entryFile = [j \in Jobs |-> 0]

NextJobs ==
  \/ \E u \in Jobs : ServerAccept(u)
  \/ \E j \in Jobs : EnterStage(j)
  \/ \E j \in Jobs : StageSucceeds(j)
  \/ \E j \in Jobs : StageFails(j)
  \/ \E j \in Jobs : FinalMerge(j)
  \/ \E j \in Jobs : CloseChannel(j)

SpecJobs == InitJobs /\ [][NextJobs]_vars

-----------------------------------------------------------------------------
(* A second upload while the first job is still followed.  The run starts  *)
(* in the state the program is in when job 1 has entered its last stage    *)
(* and the observer, subscribed since the upload's response, has been      *)
(* dispatched every event so far.                                          *)

\* The record of a job whose stages succeed, after its k-th merge.
RecordAfter(k) ==
  [status |-> "running", stage |-> StageOrder[(k + 1) \div 2],
   progress |-> IF k % 2 = 1 THEN Floor((k + 1) \div 2) ELSE Ceiling[k \div 2],
   errorDetail |-> "", updatedAt |-> k + 1]

\* Merges applied when the last stage has been entered.
MergesAtLastStage == 2 * NumStages - 1

InitMid ==
  /\ uploads = [u \in Jobs |-> IF u = 1 THEN "done" ELSE "unused"]
  /\ rec = [j \in Jobs |-> IF j = 1 THEN RecordAfter(MergesAtLastStage) ELSE NoRecord]
  /\ pc = [j \in Jobs |-> IF j = 1 THEN [at |-> "run", i |-> NumStages] ELSE NotStarted]
  /\ calls = [j \in Jobs |-> IF j = 1 THEN [k \in 1..NumStages |-> k] ELSE <<>>]
  /\ ceilLog = [j \in Jobs |->
                  IF j = 1 THEN [k \in 1..(NumStages - 1) |-> Ceiling[k]] ELSE <<>>]
  /\ chanClosed = [j \in Jobs |-> FALSE]
  /\ nsub = 1
  /\ sub = [s \in Subs |-> IF s = 1 THEN [job |-> 1, cli |-> "open", srv |-> TRUE,
                                          late |-> FALSE]
                           ELSE NoSub]
  /\ chan = [s \in Subs |-> <<>>]
  /\ got = [s \in Subs |->
              IF s = 1
              THEN <<ConnectedEvent>> \o
                   [k \in 1..MergesAtLastStage |-> ProgressEvent(1, RecordAfter(k))]
              ELSE <<>>]
  /\ ps = [processingId |-> 1, uploadId |-> 1,
           currentStep |-> WireStep(StageOrder[NumStages]), status |-> "processing",
           progress |-> Floor(NumStages), errorMessage |-> ""]
  /\ esRef = 1
  /\ effPending = FALSE
  /\ mounted = TRUE
  /\ cache = <<>>
  /\ arrival = <<>>
  /\ upserted = <<>>
  /\ edits = 0
  /\ statsReq = {}
  /\ shown = <<>>
  /\ selectedFile = NoFile
  /\ showConfirm = FALSE
  /\ confirmed = <<>>
  /\ reportReady = FALSE
  /\ dataStats = 0
  /\ fileName = 1
  /\ capName = [s \in Subs |-> IF s = 1 THEN 1 ELSE 0]
  /\ reqName = [j \in Jobs |-> 0]
  /\ entryFile = [j \in Jobs |-> 0]

NextMid ==
  \/ \E u \in Jobs : StartUpload(u)
  \/ \E u \in Jobs : ServerAccept(u)
  \/ \E u \in Jobs : ServerReject(u)
  \/ \E u \in Jobs : UploadResponse(u)
  \/ \E u \in Jobs : UploadFailed(u)
  \/ RunEffect
  \/ \E s \in Subs : Deliver(s)
  \/ \E j \in Jobs : StatsOk(j)
  \/ \E j \in Jobs : StatsFail(j)
  \/ \E s \in Subs : ConnError(s)
  \/ Unmount
  \/ \E j \in Jobs : EnterStage(j)
  \/ \E j \in Jobs : StageSucceeds(j)
  \/ \E j \in Jobs : StageFails(j)
  \/ \E j \in Jobs : FinalMerge(j)
  \/ \E j \in Jobs : CloseChannel(j)
  \/ \E s \in Subs : Timeout(s)

SpecMid == InitMid /\ [][NextMid]_vars

\* A step of job j's Orchestrator.  It runs as a server task of its own:
\* a step that stays possible is eventually taken.
JobStep(j) ==
  \/ EnterStage(j)
  \/ StageSucceeds(j)
  \/ StageFails(j)
  \/ FinalMerge(j)
  \/ CloseChannel(j)

LiveMid == SpecMid /\ \A j \in Jobs : WF_vars(JobStep(j))

\* The starting state of SpecMid, as a state of Spec.
MidState ==
  /\ rec[1] = RecordAfter(MergesAtLastStage)
  /\ pc[1] = [at |-> "run", i |-> NumStages]
  /\ calls[1] = [k \in 1..NumStages |-> k]
  /\ ceilLog[1] = [k \in 1..(NumStages - 1) |-> Ceiling[k]]
  /\ ~chanClosed[1]
  /\ uploads[1] = "done"
  /\ nsub = 1
  /\ sub[1] = [job |-> 1, cli |-> "open", srv |-> TRUE, late |-> FALSE]
  /\ chan[1] = <<>>
  /\ got[1] = <<ConnectedEvent>> \o
                [k \in 1..MergesAtLastStage |-> ProgressEvent(1, RecordAfter(k))]
  /\ ps = [processingId |-> 1, uploadId |-> 1,
           currentStep |-> WireStep(StageOrder[NumStages]), status |-> "processing",
           progress |-> Floor(NumStages), errorMessage |-> ""]
  /\ esRef = 1
  /\ effPending = FALSE
  /\ mounted

-----------------------------------------------------------------------------
(* A second upload while the response of the first is still on its way.    *)
(* The run starts in the state the program is in when upload 1 has been    *)
(* accepted and job 1 has entered its last stage, while handleFileUpload   *)
(* still awaits the response: no identifier is known and no stream is open.*)

InitLate ==
  /\ uploads = [u \in Jobs |-> IF u = 1 THEN "accepted" ELSE "unused"]
  /\ rec = [j \in Jobs |-> IF j = 1 THEN RecordAfter(MergesAtLastStage) ELSE NoRecord]
  /\ pc = [j \in Jobs |-> IF j = 1 THEN [at |-> "run", i |-> NumStages] ELSE NotStarted]
  /\ calls = [j \in Jobs |-> IF j = 1 THEN [k \in 1..NumStages |-> k] ELSE <<>>]
  /\ ceilLog = [j \in Jobs |->
                  IF j = 1 THEN [k \in 1..(NumStages - 1) |-> Ceiling[k]] ELSE <<>>]
  /\ chanClosed = [j \in Jobs |-> FALSE]
  /\ nsub = 0
  /\ sub = [s \in Subs |-> NoSub]
  /\ chan = [s \in Subs |-> <<>>]
  /\ got = [s \in Subs |-> <<>>]
  /\ ps = [processingId |-> 0, uploadId |-> 0, currentStep |-> "upload",
           status |-> "processing", progress |-> 0, errorMessage |-> ""]
  /\ esRef = 0
  /\ effPending = FALSE
  /\ mounted = TRUE
  /\ cache = <<>>
  /\ arrival = <<>>
  /\ upserted = <<>>
  /\ edits = 0
  /\ statsReq = {}
  /\ shown = <<>>
  /\ selectedFile = NoFile
  /\ showConfirm = FALSE
  /\ confirmed = <<>>
  /\ reportReady = FALSE
  /\ dataStats = 0
  /\ fileName = 1
  /\ capName = [s \in Subs |-> 0]
  /\ reqName = [j \in Jobs |-> 0]
  /\ entryFile = [j \in Jobs |-> 0]

SpecLate == InitLate /\ [][NextMid]_vars

\* The starting state of SpecLate, as a state of Spec.
LateState ==
  /\ rec[1] = RecordAfter(MergesAtLastStage)
  /\ pc[1] = [at |-> "run", i |-> NumStages]
  /\ calls[1] = [k \in 1..NumStages |-> k]
  /\ ceilLog[1] = [k \in 1..(NumStages - 1) |-> Ceiling[k]]
  /\ ~chanClosed[1]
  /\ uploads[1] = "accepted"
  /\ nsub = 0
  /\ ps = [processingId |-> 0, uploadId |-> 0, currentStep |-> "upload",
           status |-> "processing", progress |-> 0, errorMessage |-> ""]
  /\ esRef = 0
  /\ effPending = FALSE
  /\ mounted
  /\ fileName = 1
  /\ ~reportReady
  /\ statsReq = {}
  /\ cache = <<>>

-----------------------------------------------------------------------------
(* The Job Store under arbitrary callers: any partial update is tried on   *)
(* any record, valid or not.                                               *)

\* Merges applied to one record.
MaxMerges == 3

ProgressValues == {0, 10, 30, 50}

\* The partial updates tried.
Updates ==
  {[progress |-> p] : p \in ProgressValues}
  \cup {[stage |-> StageOrder[i], status |-> "running"] : i \in 1..2}
  \cup {[stage |-> StageOrder[i], status |-> "running", progress |-> Floor(i)] : i \in 2..3}
  \cup {FailureUpdate(2), FinalUpdate}

InitStore ==
  /\ uploads = [u \in Jobs |-> "accepted"]
  /\ rec = [j \in Jobs |-> NewRecord]
  /\ pc = [j \in Jobs |-> NotStarted]
  /\ calls = [j \in Jobs |-> <<>>]
  /\ ceilLog = [j \in Jobs |-> <<>>]
  /\ chanClosed = [j \in Jobs |-> FALSE]
  /\ nsub = 0
  /\ sub = [s \in Subs |-> NoSub]
  /\ chan = [s \in Subs |-> <<>>]
  /\ got = [s \in Subs |-> <<>>]
  /\ ps = IdleState
  /\ esRef = 0
  /\ effPending = FALSE
  /\ mounted = TRUE
  /\ cache = <<>>
  /\ arrival = <<>>
  /\ upserted = <<>>
  /\ edits = 0
  /\ statsReq = {}
  /\ shown = <<>>
  /\ selectedFile = NoFile
  /\ showConfirm = FALSE
  /\ confirmed = <<>>
  /\ reportReady = FALSE
  /\ dataStats = 0
  /\ fileName = 0
  /\ capName = [s \in Subs |-> 0]
  /\ reqName = [j \in Jobs |-> 0]
  /\ entryFile = [j \in Jobs |-> 0]

\* merge(j, upd), called by anyone.
TryMerge(j, upd) ==
  /\ rec[j].updatedAt <= MaxMerges
  /\ rec' = Merge(rec, j, upd)
  /\ UNCHANGED <<uploads, pc, calls, ceilLog, chanClosed, nsub, sub, chan, got,
                 ps, esRef, effPending, mounted, cacheVars, statsReq, shown,
                 uploadVars, reportReady, dataStats, fileName, capName, reqName, entryFile>>

NextStore == \E j \in Jobs, upd \in Updates : TryMerge(j, upd)

SpecStore == InitStore /\ [][NextStore]_vars

-----------------------------------------------------------------------------
(* The History Cache under arbitrary callers: any sequence of addReport,   *)
(* removeReport and clearCache calls.                                      *)

InitCache ==
  /\ uploads = [u \in Jobs |-> "unused"]
  /\ rec = [j \in Jobs |-> NoRecord]
  /\ pc = [j \in Jobs |-> NotStarted]
  /\ calls = [j \in Jobs |-> <<>>]
  /\ ceilLog = [j \in Jobs |-> <<>>]
  /\ chanClosed = [j \in Jobs |-> FALSE]
  /\ nsub = 0
  /\ sub = [s \in Subs |-> NoSub]
  /\ chan = [s \in Subs |-> <<>>]
  /\ got = [s \in Subs |-> <<>>]
  /\ ps = IdleState
  /\ esRef = 0
  /\ effPending = FALSE
  /\ mounted = TRUE
  /\ cache = <<>>
  /\ arrival = <<>>
  /\ upserted = <<>>
  /\ edits = 0
  /\ statsReq = {}
  /\ shown = <<>>
  /\ selectedFile = NoFile
  /\ showConfirm = FALSE
  /\ confirmed = <<>>
  /\ reportReady = FALSE
  /\ dataStats = 0
  /\ fileName = 0
  /\ capName = [s \in Subs |-> 0]
  /\ reqName = [j \in Jobs |-> 0]
  /\ entryFile = [j \in Jobs |-> 0]

\* CacheService.addReport(report): the next fresh uploadId with stats 1, or
\* (as an edit) any uploadId passed before, with any stats.
AddReportCall(id, st) ==
  /\ \/ st = 1 /\ IsNextFresh(id)
     \/ edits < MaxEdits /\ id < NextFresh
  /\ edits' = IF IsNextFresh(id) THEN edits ELSE edits + 1
  /\ cache' = AddReport(cache, Report(id, st))
  /\ upserted' = Append(upserted, Report(id, st))
  /\ arrival' = Arrived(arrival, id, cache')
  /\ UNCHANGED <<uploads, serverVars, nsub, sub, chan, got, ps, esRef, effPending, mounted,
                 statsReq, shown,
                 uploadVars, reportReady, dataStats, fileName, capName, reqName, entryFile>>

\* CacheService.removeReport(uploadId), from ReportHistory's handleRemove.
RemoveReportCall(id) ==
  /\ edits < MaxEdits
  /\ id < NextFresh
  /\ edits' = edits + 1
  /\ cache' = RemoveReport(cache, id)
  /\ arrival' = SelectSeq(arrival, LAMBDA x : x # id)
  /\ UNCHANGED <<uploads, serverVars, nsub, sub, chan, got, ps, esRef, effPending, mounted,
                 upserted, statsReq, shown,
                 uploadVars, reportReady, dataStats, fileName, capName, reqName, entryFile>>

\* CacheService.clearCache()
ClearCacheCall ==
  /\ edits < MaxEdits
  /\ edits' = edits + 1
  /\ cache' = ClearCache
  /\ arrival' = <<>>
  /\ UNCHANGED <<uploads, serverVars, nsub, sub, chan, got, ps, esRef, effPending, mounted,
                 upserted, statsReq, shown,
                 uploadVars, reportReady, dataStats, fileName, capName, reqName, entryFile>>

NextCache ==
  \/ \E id \in Ids, st \in StatsValues : AddReportCall(id, st)
  \/ \E id \in Ids : RemoveReportCall(id)
  \/ ClearCacheCall

SpecCache == InitCache /\ [][NextCache]_vars

-----------------------------------------------------------------------------
(* ProcessingStatus rendered with any props: currentStep is a step id, one *)
(* of the two sentinels or another string, status any of its four values.  *)

StepNames == {steps[k] : k \in 1..Len(steps)} \cup {"completed", "error", "idle", ""}

Statuses == {"idle", "processing", "completed", "failed"}

InitSteps ==
  /\ uploads = [u \in Jobs |-> "unused"]
  /\ rec = [j \in Jobs |-> NoRecord]
  /\ pc = [j \in Jobs |-> NotStarted]
  /\ calls = [j \in Jobs |-> <<>>]
  /\ ceilLog = [j \in Jobs |-> <<>>]
  /\ chanClosed = [j \in Jobs |-> FALSE]
  /\ nsub = 0
  /\ sub = [s \in Subs |-> NoSub]
  /\ chan = [s \in Subs |-> <<>>]
  /\ got = [s \in Subs |-> <<>>]
  /\ \E c \in StepNames, st \in Statuses :
       ps = [IdleState EXCEPT !.currentStep = c, !.status = st,
                              !.errorMessage = IF st = "failed" THEN "failed" ELSE ""]
  /\ esRef = 0
  /\ effPending = FALSE
  /\ mounted = TRUE
  /\ cache = <<>>
  /\ arrival = <<>>
  /\ upserted = <<>>
  /\ edits = 0
  /\ statsReq = {}
  /\ shown = <<>>
  /\ selectedFile = NoFile
  /\ showConfirm = FALSE
  /\ confirmed = <<>>
  /\ reportReady = FALSE
  /\ dataStats = 0
  /\ fileName = 0
  /\ capName = [s \in Subs |-> 0]
  /\ reqName = [j \in Jobs |-> 0]
  /\ entryFile = [j \in Jobs |-> 0]

\* One iteration of steps.map in the render of ProcessingStatus.
RenderStep ==
  /\ Len(shown) < Len(steps)
  /\ shown' = Append(shown, GetStepStatus(steps[Len(shown) + 1], ps.currentStep, ps.status))
  /\ UNCHANGED <<uploads, serverVars, nsub, sub, chan, got, ps, esRef, effPending, mounted,
                 cacheVars, statsReq,
                 uploadVars, reportReady, dataStats, fileName, capName, reqName, entryFile>>

NextSteps == RenderStep

SpecSteps == InitSteps /\ [][NextSteps]_vars

-----------------------------------------------------------------------------
(* FileUpload.tsx: a file is selected by a drop, then confirmed or         *)
(* cancelled.  A file is its type and its name, the name as its            *)
(* characters.                                                             *)

MaxConfirms == 2

MaxDrop == 2

FileTypes == {"text/csv", "application/vnd.ms-excel", ""}

FileNames == {<<"a", ".", "c", "s", "v">>, <<"a", ".", "t", "x", "t">>,
              <<"a", ".", "C", "S", "V">>}

Files == [type : FileTypes, name : FileNames]

\* name.endsWith(suffix)
EndsWith(name, suffix) ==
  /\ Len(name) >= Len(suffix)
  /\ SubSeq(name, Len(name) - Len(suffix) + 1, Len(name)) = suffix

\* file.type === 'text/csv' || file.name.endsWith('.csv')
IsCsv(file) == file.type = "text/csv" \/ EndsWith(file.name, <<".", "c", "s", "v">>)

\* The files a drop hands to onDrop: none, one or more.
Drops == UNION {[1..n -> Files] : n \in 0..MaxDrop}

\* onDrop(acceptedFiles); a file that is not CSV only raises an alert.
OnDrop(acceptedFiles) ==
  /\ Len(acceptedFiles) > 0
  /\ IsCsv(acceptedFiles[1])
  /\ selectedFile' = acceptedFiles[1]
  /\ showConfirm' = TRUE
  /\ UNCHANGED <<uploads, serverVars, nsub, sub, chan, got, ps, esRef, effPending, mounted,
                 cacheVars, statsReq, shown, confirmed, reportReady, dataStats,
                 fileName, capName, reqName, entryFile>>

\* A confirm that leaves the file selected.
HandleConfirmUploadKeep ==
  /\ Len(confirmed) < MaxConfirms
  /\ selectedFile # NoFile
  /\ confirmed' = Append(confirmed, selectedFile)
  /\ showConfirm' = FALSE
  /\ UNCHANGED <<uploads, serverVars, nsub, sub, chan, got, ps, esRef, effPending, mounted,
                 cacheVars, statsReq, shown, selectedFile, reportReady, dataStats,
                 fileName, capName, reqName, entryFile>>

\* handleConfirmUpload; without a selected file it does nothing.
HandleConfirmUpload ==
  /\ Len(confirmed) < MaxConfirms
  /\ IF selectedFile # NoFile
     THEN /\ confirmed' = Append(confirmed, selectedFile)
          /\ showConfirm' = FALSE
          /\ selectedFile' = NoFile
     ELSE UNCHANGED uploadVars
  /\ UNCHANGED <<uploads, serverVars, nsub, sub, chan, got, ps, esRef, effPending, mounted,
                 cacheVars, statsReq, shown, reportReady, dataStats,
                 fileName, capName, reqName, entryFile>>

\* handleCancelUpload
HandleCancelUpload ==
  /\ selectedFile' = NoFile
  /\ showConfirm' = FALSE
  /\ UNCHANGED <<uploads, serverVars, nsub, sub, chan, got, ps, esRef, effPending, mounted,
                 cacheVars, statsReq, shown, confirmed, reportReady, dataStats,
                 fileName, capName, reqName, entryFile>>

NextUpload ==
  \/ \E acceptedFiles \in Drops : OnDrop(acceptedFiles)
  \/ HandleConfirmUpload
  \/ HandleCancelUpload

SpecUpload == Init /\ [][NextUpload]_vars

-----------------------------------------------------------------------------
(* Sanity of the model itself                                              *)

TypeOK ==
  /\ uploads \in [Jobs -> {"unused", "sent", "accepted", "rejected", "done", "failed"}]
  /\ \A j \in Jobs :
       /\ rec[j].status \in {"absent", "pending", "running", "completed", "failed"}
       /\ rec[j].progress \in 0..100
       /\ pc[j].at \in {"none", "enter", "run", "final", "close", "done"}
  /\ nsub \in 0..MaxSubs
  /\ \A s \in Subs :
       /\ sub[s].cli \in {"none", "open", "closed"}
       /\ sub[s].cli = "none" <=> s > nsub
       /\ sub[s].cli # "none" => sub[s].job \in Jobs
       /\ sub[s].cli # "open" => chan[s] = <<>>
       /\ sub[s].srv => sub[s].cli = "open"
       /\ sub[s].cli = "open" => esRef = s
  /\ ps.status \in {"idle", "processing", "completed", "failed"}
  /\ esRef \in {0} \cup Subs
  /\ effPending \in BOOLEAN
  /\ mounted \in BOOLEAN
  /\ ~mounted => esRef = 0 /\ ~effPending
  /\ statsReq \subseteq Jobs
  /\ Len(shown) <= Len(steps)
  /\ selectedFile \in Files \cup {NoFile}
  /\ showConfirm \in BOOLEAN
  /\ reportReady \in BOOLEAN

-----------------------------------------------------------------------------
(* C1: the progress values of a job never decrease until the job ends,     *)
(* neither in its Job Record nor in what the observer shows for the job it *)
(* follows (same processingId, status still processing).                   *)

RecordProgressStep ==
  \A j \in Jobs : rec[j].status # "absent" => rec'[j].progress >= rec[j].progress

ObserverProgressStep ==
  (ps.processingId # 0 /\ ps'.processingId = ps.processingId /\ ps.status = "processing")
     => ps'.progress >= ps.progress

C1_ProgressNeverDecreases == [][RecordProgressStep /\ ObserverProgressStep]_vars

-----------------------------------------------------------------------------
(* C2: once a job is completed or failed, nothing changes its stage,       *)
(* status or progress any more: not in its Job Record, and not in the      *)
(* observer's state for the job it follows.                                *)

RecordFrozenStep ==
  \A j \in Jobs :
    Terminal(rec[j]) =>
      /\ rec'[j].stage = rec[j].stage
      /\ rec'[j].status = rec[j].status
      /\ rec'[j].progress = rec[j].progress

ObserverFrozenStep ==
  (ps.processingId # 0 /\ ps'.processingId = ps.processingId
     /\ ps.status \in {"completed", "failed"})
  => /\ ps'.currentStep = ps.currentStep
     /\ ps'.status = ps.status
     /\ ps'.progress = ps.progress

C2_TerminalIsFinal == [][RecordFrozenStep /\ ObserverFrozenStep]_vars

-----------------------------------------------------------------------------
(* C3: the stages of a job are taken in the fixed order intake, cleaning,  *)
(* deduplication, analysis, rendering, completed, none skipped and none    *)
(* repeated; the only other transition leads from a stage that is not      *)
(* terminal to error, and nothing follows error.  The steps carried by the *)
(* progress events of a stream follow the same order.                      *)

FixedOrder == <<"intake", "cleaning", "deduplication", "analysis", "rendering",
                "completed">>

FixedSteps == <<"upload", "clean", "dedupe", "workflow", "report", "completed">>

Follows(order, a, b) ==
  \E i \in 1..(Len(order) - 1) : order[i] = a /\ order[i + 1] = b

StageOrderStep ==
  \A j \in Jobs :
    rec'[j].stage # rec[j].stage =>
      \/ rec[j].status = "absent" /\ rec'[j].stage = "intake"
      \/ Follows(FixedOrder, rec[j].stage, rec'[j].stage)
      \/ rec'[j].stage = "error" /\ rec[j].stage \notin {"completed", "error"}

ProgressEventsOf(log) == SelectSeq(log, LAMBDA e : e.type = "progress")

StepsInOrder(log) ==
  \A k \in 1..(Len(log) - 1) :
    \/ log[k + 1].current_step = log[k].current_step
    \/ Follows(FixedSteps, log[k].current_step, log[k + 1].current_step)
    \/ log[k + 1].current_step = "error" /\ log[k].current_step \notin {"completed", "error"}

EventStepsInOrder ==
  \A s \in Subs : StepsInOrder(ProgressEventsOf(got[s] \o chan[s]))

C3_StageOrder == [][StageOrderStep /\ EventStepsInOrder']_vars

C3_Witness ==
  /\ rec[1].stage = "completed"
  /\ calls[1] = <<1, 2, 3, 4, 5>>
  /\ \E s \in Subs : sub[s].job = 1 /\ Len(ProgressEventsOf(got[s])) >= 3

-----------------------------------------------------------------------------
(* C4: when a stage's collaborator fails, the record is failed, at stage   *)
(* error, with the errorDetail of that failure; the Orchestrator halts: no *)
(* collaborator is invoked after the failed one, and that one only once.   *)

C4_FailureHalts ==
  \A j \in Jobs :
    rec[j].status = "failed" =>
      /\ rec[j].stage = "error"
      /\ pc[j].at \in {"close", "done"}
      /\ \E i \in 1..NumStages :
           /\ rec[j].errorDetail = FailureNote[i]
           /\ calls[j] = [k \in 1..i |-> k]

C4_Witness ==
  \E j \in Jobs :
    /\ rec[j].status = "failed"
    /\ pc[j].at = "done"
    /\ calls[j] = <<1, 2, 3>>

-----------------------------------------------------------------------------
(* C5: a job whose collaborators all succeed merges the progress values    *)
(* 10, 30, 50, 85, 100 in that order at its stage completions and ends     *)
(* completed with progress 100; completed never goes with less than 100;   *)
(* the channel is closed only after the final merge.                       *)

IsPrefix(a, b) == Len(a) <= Len(b) /\ \A k \in 1..Len(a) : a[k] = b[k]

C5_HappyPath ==
  \A j \in Jobs :
    /\ IsPrefix(ceilLog[j], <<10, 30, 50, 85, 100>>)
    /\ rec[j].status = "completed" =>
         rec[j].progress = 100 /\ ceilLog[j] = <<10, 30, 50, 85, 100>>
    /\ (pc[j].at = "done" /\ rec[j].status # "failed") => rec[j].status = "completed"
    /\ chanClosed[j] => Terminal(rec[j])

C5_Witness ==
  \E j \in Jobs : chanClosed[j] /\ rec[j].status = "completed"

-----------------------------------------------------------------------------
(* C6: with two jobs running concurrently, in every interleaving each      *)
(* job's progress never decreases and its stages follow the fixed order,   *)
(* and a merge applied to one job changes no field of another job's        *)
(* record.                                                                 *)

OneRecordPerStep ==
  \A j, k \in Jobs : (j # k /\ rec'[j] # rec[j]) => rec'[k] = rec[k]

C6_JobsIndependent ==
  [][OneRecordPerStep /\ RecordProgressStep /\ StageOrderStep]_vars

C6_Witness ==
  /\ pc[1].at = "run" /\ pc[2].at = "run"
  /\ pc[1].i = 4 /\ pc[2].i = 2
  /\ rec[1].progress = 50 /\ rec[2].progress = 10

-----------------------------------------------------------------------------
(* C7: the progress events of a job are dispatched to its subscriber in    *)
(* the order in which the merges were applied (updatedAt, carried as seq), *)
(* none before an earlier one and none twice.                              *)

StrictlyIncreasingSeq(log) ==
  \A k \in 1..(Len(log) - 1) : log[k].seq < log[k + 1].seq

C7_DeliveredInMergeOrder ==
  \A s \in Subs : StrictlyIncreasingSeq(ProgressEventsOf(got[s]))

C7_Witness ==
  \E s \in Subs :
    /\ Len(ProgressEventsOf(got[s])) >= 3
    /\ Len(chan[s]) >= 2

-----------------------------------------------------------------------------
(* C8: on every subscription finished is emitted at most once, only when   *)
(* the Job Record is completed or failed, and it is the last event: after  *)
(* its dispatch the stream is closed, so that nothing else is dispatched   *)
(* or processed on it.                                                     *)

FinishedOnlyLast(log) ==
  \A k \in 1..Len(log) : log[k].type = "finished" => k = Len(log)

HasEvent(log, type) == \E k \in 1..Len(log) : log[k].type = type

C8_FinishedIsLast ==
  \A s \in Subs :
    /\ FinishedOnlyLast(got[s] \o chan[s])
    /\ HasEvent(got[s] \o chan[s], "finished") => Terminal(rec[sub[s].job])
    /\ HasEvent(got[s], "finished") => sub[s].cli = "closed"

C8_Witness ==
  \E s \in Subs :
    /\ Len(got[s]) >= 3
    /\ got[s][Len(got[s])].type = "finished"

-----------------------------------------------------------------------------
(* C9, as stated: a subscriber attached when its job fails is delivered    *)
(* the error event and then the finished event, and nothing after them.    *)
(* A stream that was dispatched the error event and is closed has          *)
(* therefore been dispatched finished right after it.                      *)

EndsWithErrorFinished(log) ==
  /\ Len(log) >= 2
  /\ log[Len(log) - 1].type = "error"
  /\ log[Len(log)].type = "finished"

C9_ErrorThenFinishedDelivered ==
  \A s \in Subs :
    (sub[s].cli = "closed" /\ HasEvent(got[s], "error")) => EndsWithErrorFinished(got[s])

(* C9, amended: the Broadcaster emits to a subscriber attached when its    *)
(* job fails an error event carrying the errorDetail and, when the channel *)
(* is closed while the subscriber is still attached, a finished event      *)
(* right after it and nothing else; the observer closes its stream on the  *)
(* error event, which is thus the last event dispatched to it.             *)

ErrorThenFinishedEmitted(s, log) ==
  \A k \in 1..Len(log) :
    log[k].type = "error" =>
      /\ rec[sub[s].job].status = "failed"
      /\ log[k].error = rec[sub[s].job].errorDetail
      /\ log[k].error # ""
      /\ \/ k = Len(log) /\ (~chanClosed[sub[s].job] \/ sub[s].cli = "closed")
         \/ k + 1 = Len(log) /\ log[k + 1].type = "finished"

C9_ErrorEmittedThenFinished ==
  \A s \in Subs :
    /\ ErrorThenFinishedEmitted(s, got[s] \o chan[s])
    /\ HasEvent(got[s], "error") =>
         /\ got[s][Len(got[s])].type = "error"
         /\ sub[s].cli = "closed"

C9_Witness ==
  \E s \in Subs :
    /\ sub[s].cli = "closed"
    /\ rec[sub[s].job].status = "failed"
    /\ chanClosed[sub[s].job]
    /\ HasEvent(got[s], "error")

-----------------------------------------------------------------------------
(* C10: a subscription opened after its job has reached completed is       *)
(* dispatched none of the progress events emitted before it attached, and  *)
(* it does not wait forever: while it stays open, the finished event is    *)
(* eventually dispatched to it.  The event loop dispatches a message that  *)
(* stays in flight (weak fairness of Deliver).                             *)

FairSpec == Spec /\ \A s \in Subs : WF_vars(Deliver(s))

LateSeesNoProgress ==
  \A s \in Subs : sub[s].late => ~HasEvent(got[s] \o chan[s], "progress")

C10_LateSubscriberFinishes ==
  /\ []LateSeesNoProgress
  /\ \A s \in Subs :
       (sub[s].late /\ sub[s].cli = "open")
         ~> (HasEvent(got[s], "finished") \/ sub[s].cli = "closed")

C10_Witness ==
  \E s \in Subs :
    /\ sub[s].late
    /\ rec[sub[s].job].updatedAt >= 12
    /\ got[s] = <<ConnectedEvent, FinishedEvent(sub[s].job, rec[sub[s].job])>>

-----------------------------------------------------------------------------
(* C11: closing a subscription (a connection error, a terminal event, a    *)
(* new upload that replaces it, or the unmount of App) changes nothing in  *)
(* the job: the step that closes it leaves every Job Record and the        *)
(* Orchestrator's position untouched, the Orchestrator's next step stays   *)
(* possible, and the job of a closed subscription still runs to completed  *)
(* or failed and to the close of its channel.                              *)

ClosingStep == \E s \in Subs : sub[s].cli = "open" /\ sub'[s].cli = "closed"

OrchestratorCanStep ==
  \A j \in Jobs : pc[j].at \in {"enter", "run", "final", "close"} => ENABLED JobStep(j)

C11_ClosingLeavesJobAlone ==
  /\ [][ClosingStep => UNCHANGED serverVars]_vars
  /\ []OrchestratorCanStep
  /\ \A s \in Subs :
       (sub[s].cli = "closed")
         ~> (sub[s].cli = "closed" /\ Terminal(rec[sub[s].job]) /\ pc[sub[s].job].at = "done")

C11_Witness ==
  /\ nsub = 2
  /\ sub[1].cli = "closed"
  /\ ~HasEvent(got[1], "finished")
  /\ ~HasEvent(got[1], "error")
  /\ ~HasEvent(got[1], "timeout")
  /\ rec[1].status = "completed"
  /\ sub[2].cli = "closed"
  /\ ~mounted
  /\ rec[2].status = "completed"

-----------------------------------------------------------------------------
(* C12: when the inactivity window of a subscription expires, a timeout    *)
(* event is emitted on it and only that subscription is closed; no Job     *)
(* Record and no Orchestrator position changes; and the dispatch of the    *)
(* timeout event does not make the observer show the job as failed unless  *)
(* its Job Record is failed.                                               *)

TimeoutEmitStep ==
  \A s \in Subs :
    (sub[s].srv /\ ~sub'[s].srv /\ chan'[s] = chan[s] \o <<TimeoutEvent>>) =>
      /\ UNCHANGED serverVars
      /\ \A t \in Subs \ {s} : sub'[t] = sub[t] /\ chan'[t] = chan[t]

TimeoutDispatchStep ==
  \A s \in Subs :
    (got'[s] = Append(got[s], TimeoutEvent)) =>
      /\ UNCHANGED serverVars
      /\ ps'.status = "failed" => rec[sub[s].job].status = "failed"

C12_TimeoutNotFatal == [][TimeoutEmitStep /\ TimeoutDispatchStep]_vars

-----------------------------------------------------------------------------
(* C13: a subscriber that is slow (its events stay in flight), detached or *)
(* absent never blocks the Orchestrator: every job that was created        *)
(* reaches completed or failed, whatever the observer does; and nothing is *)
(* queued for a subscription that is detached from its job's channel.      *)

DetachedDrops ==
  \A s \in Subs :
    (sub[s].cli # "none" /\ ~sub[s].srv) => Len(chan'[s]) <= Len(chan[s])

C13_SubscriberNeverBlocks ==
  /\ [][DetachedDrops]_vars
  /\ \A j \in Jobs : (rec[j].status \in {"pending", "running"}) ~> Terminal(rec[j])

C13_Witness ==
  /\ sub[1].cli = "closed"
  /\ ~HasEvent(got[1], "finished")
  /\ pc[1].at = "done"
  /\ sub[2].cli = "open"
  /\ Len(chan[2]) >= 5
  /\ pc[2].at = "done"

-----------------------------------------------------------------------------
(* C14: the observer holds at most one open stream at every moment; when a *)
(* stream is opened no other one is open; the dispatch of a finished,      *)
(* error or timeout event, a connection error and the unmount of App leave *)
(* no stream open that was open before; and once the SSE effect has run,   *)
(* a stream is open only while the status is processing.                   *)

OpenSubs == {s \in Subs : sub[s].cli = "open"}

OpeningStep ==
  \A s \in Subs :
    (sub[s].cli = "none" /\ sub'[s].cli = "open") => OpenSubs' = {s}

ClosingEventStep ==
  \/ Unmount
  \/ \E s \in Subs : ConnError(s)
  \/ \E s \in Subs :
       /\ Deliver(s)
       /\ Dispatch(chan[s]).type \in {"finished", "error", "timeout"}

SettledOpen ==
  /\ ~mounted => OpenSubs = {}
  /\ (~effPending /\ ps.status # "processing") => OpenSubs = {}

C14_AtMostOneStream ==
  [][/\ Cardinality(OpenSubs') <= 1
     /\ OpeningStep
     /\ ClosingEventStep => OpenSubs' \cap OpenSubs = {}
     /\ SettledOpen']_vars

C14_Witness ==
  /\ nsub = 2
  /\ sub[1].cli = "closed"
  /\ HasEvent(got[1], "timeout")
  /\ sub[2].cli = "open"
  /\ esRef = 2
  /\ Len(got[2]) >= 2

-----------------------------------------------------------------------------
(* C15: merge applies only the supplied fields (and stamps updatedAt); a   *)
(* merge that would lower progress, or that is applied to a record already *)
(* completed or failed, is an InvalidTransition and leaves the stored      *)
(* record as it was.                                                       *)

MergeContract(r, upd) ==
  IF Terminal(r) \/ ("progress" \in DOMAIN upd /\ upd.progress < r.progress)
  THEN InvalidTransition(r, upd) /\ MergeRecord(r, upd) = r
  ELSE /\ ~InvalidTransition(r, upd)
       /\ \A f \in DOMAIN r \ {"updatedAt"} :
            MergeRecord(r, upd)[f] = IF f \in DOMAIN upd THEN upd[f] ELSE r[f]
       /\ MergeRecord(r, upd).updatedAt > r.updatedAt

C15_MergeContract ==
  \A j \in Jobs, upd \in Updates :
    /\ MergeContract(rec[j], upd)
    /\ \A k \in Jobs \ {j} : Merge(rec, j, upd)[k] = rec[k]

C15_Witness ==
  /\ rec[1].status = "failed"
  /\ rec[1].progress = 30
  /\ rec[2].status = "running"
  /\ rec[2].progress = 50
  /\ rec[2].stage = "cleaning"

-----------------------------------------------------------------------------
(* C16: an error note is present exactly when the status is failed: in     *)
(* every Job Record, and in the observer's state also after error, timeout *)
(* and connection-error events, after a failed upload and after a new      *)
(* upload has started.                                                     *)

C16_ErrorNoteIffFailed ==
  /\ \A j \in Jobs :
       rec[j].status # "absent" => (rec[j].errorDetail # "" <=> rec[j].status = "failed")
  /\ ps.errorMessage # "" <=> ps.status = "failed"

C16_Witness ==
  /\ HasEvent(got[1], "error")
  /\ rec[1].errorDetail # ""
  /\ uploads[2] = "sent"
  /\ ps.status = "processing"
  /\ ps.errorMessage = ""

-----------------------------------------------------------------------------
(* C17: starting from an empty History Cache, after any sequence of        *)
(* addReport, removeReport and clearCache calls the cache holds at most 50 *)
(* entries (and no uploadId twice).                                        *)

C17_CacheAtMost50 ==
  /\ Len(cache) <= 50
  /\ Cardinality(IdsOf(cache)) = Len(cache)

C17_Witness ==
  /\ Len(cache) = 50
  /\ Len(upserted) = 52
  /\ edits = 1

-----------------------------------------------------------------------------
(* C18: addReport of a report whose uploadId is already in the cache       *)
(* replaces that entry in place: the cache keeps its size, the entry keeps *)
(* its position, every other entry is unchanged, and getReport of that     *)
(* uploadId then returns the new stats.                                    *)

AddReportStep == Len(upserted') = Len(upserted) + 1

Passed == upserted'[Len(upserted')]

ReplaceInPlaceStep ==
  (AddReportStep /\ Passed.uploadId \in IdsOf(cache)) =>
    /\ Len(cache') = Len(cache)
    /\ \A k \in 1..Len(cache) :
         cache'[k] = IF cache[k].uploadId = Passed.uploadId THEN Passed ELSE cache[k]
    /\ GetReport(cache', Passed.uploadId).stats = Passed.stats

C18_UpsertReplacesInPlace == [][ReplaceInPlaceStep]_vars

C18_Witness ==
  /\ edits = 1
  /\ Len(cache) = 10
  /\ Len(upserted) = 11
  /\ upserted[11] = Report(cache[4].uploadId, 2)
  /\ cache[4].stats = 2

-----------------------------------------------------------------------------
(* C19: after more than 50 addReport calls with pairwise distinct          *)
(* uploadIds on an empty cache (and no other call), the cache holds        *)
(* exactly 50 entries, and their uploadIds are those of the last 50 calls. *)

LastFifty == {upserted[k].uploadId : k \in (Len(upserted) - 49)..Len(upserted)}

C19_KeepsLastFifty ==
  (edits = 0 /\ Len(upserted) > 50) =>
    /\ Len(cache) = 50
    /\ IdsOf(cache) = LastFifty

C19_Witness ==
  /\ edits = 0
  /\ statsReq = {}
  /\ shown = <<>>
  /\ selectedFile = NoFile
  /\ showConfirm = FALSE
  /\ confirmed = <<>>
  /\ reportReady = FALSE
  /\ dataStats = 0
  /\ fileName = 0
  /\ capName = [s \in Subs |-> 0]
  /\ reqName = [j \in Jobs |-> 0]
  /\ entryFile = [j \in Jobs |-> 0]
  /\ Len(upserted) = 52
  /\ Len(cache) = 50

-----------------------------------------------------------------------------
(* C20: when addReport inserts an uploadId that is not in a cache of 50    *)
(* entries, exactly one entry leaves the cache: the one that entered it    *)
(* first among those present, whether or not it was replaced in place      *)
(* since; the entries that stay keep their order.                          *)

EvictOldestStep ==
  (AddReportStep /\ Passed.uploadId \notin IdsOf(cache) /\ Len(cache) = 50) =>
    /\ IdsOf(cache) \ IdsOf(cache') = {Head(arrival)}
    /\ Len(cache') = 50
    /\ Passed.uploadId \in IdsOf(cache')
    /\ SelectSeq(cache', LAMBDA r : r.uploadId # Passed.uploadId)
         = SelectSeq(cache, LAMBDA r : r.uploadId # Head(arrival))

C20_EvictsOldest == [][EvictOldestStep]_vars

C20_Witness ==
  /\ edits = 1
  /\ Len(cache) = 50
  /\ Len(upserted) = 52
  /\ upserted[10] = Report(1, 2)
  /\ 1 \notin IdsOf(cache)

-----------------------------------------------------------------------------
(* C21: after any sequence of addReport, removeReport and clearCache calls *)
(* on an empty History Cache no two entries share an uploadId; a job whose *)
(* report was passed to addReport more than once has a single entry.       *)

C21_OneEntryPerJob ==
  \A i \in 1..Len(cache) : \A k \in (i + 1)..Len(cache) :
    cache[i].uploadId # cache[k].uploadId

C21_Witness ==
  /\ Len(cache) > 1
  /\ \E i \in 1..Len(upserted) :
       /\ i < Len(upserted)
       /\ upserted[i].uploadId = upserted[Len(upserted)].uploadId
       /\ upserted[i].uploadId \in IdsOf(cache)

-----------------------------------------------------------------------------
(* C22: for every cache reachable from the empty one and every limit >= 0, *)
(* getRecentReports(limit) returns exactly min(limit, size) entries, the   *)
(* one that entered the cache last first; and right after addReport of an  *)
(* uploadId that was not in the cache, that report is the first element of *)
(* getRecentReports(10).                                                   *)

MaxLimit == 21

Limits == 0..MaxLimit \cup {MAX_CACHE_SIZE, MAX_CACHE_SIZE + 1}

ListContract(reports, arr, limit) ==
  LET l == GetRecentReports(reports, limit)
  IN /\ Len(l) = (IF limit < Len(reports) THEN limit ELSE Len(reports))
     /\ \A k \in 1..Len(l) :
          /\ l[k].uploadId = arr[Len(arr) + 1 - k]
          /\ l[k] = reports[k]

FirstAfterInsertStep ==
  (AddReportStep /\ Passed.uploadId \notin IdsOf(cache)) =>
    /\ GetRecentReports(cache', 10) # <<>>
    /\ GetRecentReports(cache', 10)[1] = Passed

C22_ListNewestFirst ==
  [][(\A limit \in Limits : ListContract(cache', arrival', limit))
     /\ FirstAfterInsertStep]_vars

C22_Witness ==
  /\ Len(cache) = MAX_CACHE_SIZE
  /\ edits > 0
  /\ Len(upserted) > MAX_CACHE_SIZE + 1
  /\ GetRecentReports(cache, 10)[1] = upserted[Len(upserted)]
  /\ Len(GetRecentReports(cache, 10)) = 10

-----------------------------------------------------------------------------
(* C23: the observer stores a report in the History Cache only for a job   *)
(* for which it was dispatched a progress event with status completed, and *)
(* only in the step in which the getDataStats call started by that event   *)
(* returns; a job that is failed, or whose stream ended before the         *)
(* completed event was dispatched, has no entry.                           *)

CompletedDispatched(j) ==
  \E s \in Subs :
    /\ sub[s].job = j
    /\ \E k \in 1..Len(got[s]) :
         /\ got[s][k].type = "progress"
         /\ got[s][k].status = "completed"
         /\ got[s][k].upload_id = j

StoredOnFetchReturn ==
  cache' # cache =>
    \E j \in statsReq :
      /\ j \notin statsReq'
      /\ CompletedDispatched(j)
      /\ IdsOf(cache') = IdsOf(cache) \cup {j}

OnlyCompletedStored ==
  /\ \A id \in IdsOf(cache) : rec[id].status = "completed" /\ CompletedDispatched(id)
  /\ \A j \in statsReq : rec[j].status = "completed" /\ CompletedDispatched(j)

C23_EntryOnlyAfterCompleted == [][StoredOnFetchReturn /\ OnlyCompletedStored']_vars

C23_Witness ==
  /\ \E j \in Jobs : j \in IdsOf(cache) /\ ps.status = "failed" /\ ps.processingId = j
  /\ \E j \in Jobs : rec[j].status = "failed" /\ chanClosed[j] /\ j \notin IdsOf(cache)

-----------------------------------------------------------------------------
(* C24: an upload that the intake rejects creates no job and gives the     *)
(* observer no identifier: processingId and uploadId never take its value  *)
(* and no stream is ever opened for it; when the rejection reaches         *)
(* handleFileUpload, the status becomes failed with an error message.      *)

RejectionHandledStep(u) == uploads[u] = "rejected" /\ uploads'[u] = "failed"

NothingForRejected(u) ==
  uploads[u] \in {"rejected", "failed"} =>
    /\ rec[u] = NoRecord
    /\ pc[u] = NotStarted
    /\ ps.processingId # u
    /\ ps.uploadId # u
    /\ \A s \in Subs : sub[s].job # u

C24_RejectedUploadFails ==
  [][\A u \in Jobs :
       /\ RejectionHandledStep(u) =>
            /\ ps'.status = "failed"
            /\ ps'.errorMessage # ""
            /\ ps'.processingId = ps.processingId
       /\ NothingForRejected(u)']_vars

C24_Witness ==
  \E u \in Jobs :
    /\ uploads[u] = "failed"
    /\ ps.status = "failed"
    /\ \E j \in Jobs : j # u /\ rec[j].status = "running" /\ sub[1].cli = "closed"

-----------------------------------------------------------------------------
(* C25: removeReport(uploadId) deletes the entry with that uploadId (the   *)
(* cache never holds more than one) and leaves every other entry and their *)
(* order as they were; for an uploadId that is not in the cache it leaves  *)
(* the cache as it was; and no call of the CacheService changes a Job      *)
(* Record or the Orchestrator's position.                                  *)

PositionsOf(reports, id) == {k \in 1..Len(reports) : reports[k].uploadId = id}

RemovedOnly(before, after, id) ==
  IF PositionsOf(before, id) = {} THEN after = before
  ELSE LET p == CHOOSE k \in PositionsOf(before, id) : TRUE
       IN /\ PositionsOf(after, id) = {}
          /\ Len(after) = Len(before) - 1
          /\ \A k \in 1..Len(after) :
               after[k] = IF k < p THEN before[k] ELSE before[k + 1]

C25_RemoveTouchesOneEntry ==
  [][/\ \A id \in Ids : RemoveReportCall(id) => RemovedOnly(cache, cache', id)
     /\ UNCHANGED serverVars]_vars

C25_Witness ==
  /\ edits = 1
  /\ Len(upserted) > 3
  /\ Len(cache) = Len(upserted) - 1
  /\ cache[1] = upserted[Len(upserted)]
  /\ cache[Len(cache)] = upserted[1]
  /\ Cardinality(IdsOf(upserted)) = Len(upserted)

-----------------------------------------------------------------------------
(* C26: the dispatch of a progress event whose status is that of a Job     *)
(* Record that has not ended (pending or running, 'processing' on the      *)
(* wire) closes nothing: the stream it came on stays open and stays the    *)
(* one in eventSourceRef, no cleanup is scheduled, and the observer goes   *)
(* on following the same job with status processing.  (A stream for which  *)
(* a cleanup was already scheduled by an earlier state change is closed by *)
(* that cleanup, not by the event.)                                        *)

NonTerminalProgressStep(s) ==
  /\ sub[s].cli = "open"
  /\ Len(got'[s]) = Len(got[s]) + 1
  /\ got'[s][Len(got'[s])].type = "progress"
  /\ got'[s][Len(got'[s])].status \in {WireStatus("pending"), WireStatus("running")}

-----------------------------------------------------------------------------
(* C27: whenever a stream of the observer has ended through a finished     *)
(* event (finished is the last event it dispatched and it is closed), the  *)
(* status the observer shows for that job is completed or failed, never    *)
(* processing with no stream open.                                         *)

EndedByFinished(s) ==
  /\ sub[s].cli = "closed"
  /\ got[s] # <<>>
  /\ got[s][Len(got[s])].type = "finished"

C27_FinishedLeavesTerminal ==
  \A s \in Subs :
    (EndedByFinished(s) /\ ps.processingId = sub[s].job) =>
      ps.status \in {"completed", "failed"}

-----------------------------------------------------------------------------
(* C28: when the observer shows a job as failed with currentStep 'error',  *)
(* getStepStatus marks as error the step of the stage that was being       *)
(* processed when the job failed (the last collaborator invoked).          *)

FailedStep(j) == steps[calls[j][Len(calls[j])]]

C28_GlobalErrorOnFailedStep ==
  \A j \in Jobs :
    (/\ ps.processingId = j
     /\ ps.status = "failed"
     /\ ps.currentStep = "error"
     /\ rec[j].status = "failed") =>
      GetStepStatus(FailedStep(j), ps.currentStep, ps.status) = "error"

-----------------------------------------------------------------------------
(* C29: in every state of the observer in which status is failed,          *)
(* getStepStatus marks exactly one of the five steps as error.             *)

ErrorSteps(currentStep, status) ==
  {k \in 1..Len(steps) : GetStepStatus(steps[k], currentStep, status) = "error"}

C29_OneErrorStepWhenFailed ==
  ps.status = "failed" => Cardinality(ErrorSteps(ps.currentStep, ps.status)) = 1

-----------------------------------------------------------------------------
(* C30: for every currentStep and status, the statuses that getStepStatus  *)
(* derives for the five steps in order are a run of completed, then at     *)
(* most one step that is processing or error, then a run of pending: at    *)
(* most one step is processing or error, and nothing but completed steps   *)
(* comes before a completed, processing or error step.                     *)

InProgressOrError(x) == x \in {"processing", "error"}

C30_StepStatusesFormRun ==
  /\ \A k \in 1..Len(shown) :
       /\ shown[k] \in {"completed", "processing", "error", "pending"}
       /\ shown[k] = StepStatuses(ps.currentStep, ps.status)[k]
       /\ shown[k] # "pending" => \A i \in 1..(k - 1) : shown[i] = "completed"
  /\ Cardinality({k \in 1..Len(shown) : InProgressOrError(shown[k])}) <= 1

C30_Witness ==
  /\ ps.status = "failed"
  /\ ps.currentStep = "dedupe"
  /\ shown = <<"completed", "completed", "error", "pending", "pending">>

-----------------------------------------------------------------------------
(* C35: addReport is idempotent: passing a report to addReport a second    *)
(* time right after the first leaves the cache exactly as the first call   *)
(* left it (same entries, same order).  Checked for every report that is   *)
(* passed in a step, and in every cache for reports with the uploadId of   *)
(* its first entry, of its last entry and of no entry.                     *)

IdempotentOn(reports, report) ==
  AddReport(AddReport(reports, report), report) = AddReport(reports, report)

ProbeIds(reports) ==
  {MaxIds + 1} \cup
  (IF reports = <<>> THEN {}
   ELSE {reports[1].uploadId, reports[Len(reports)].uploadId})

C35_UpsertIdempotent ==
  [][/\ AddReportStep => AddReport(cache', Passed) = cache'
     /\ \A id \in ProbeIds(cache'), st \in StatsValues :
          IdempotentOn(cache', Report(id, st))]_vars

C35_Witness ==
  /\ Len(cache) = MAX_CACHE_SIZE
  /\ Len(upserted) = MAX_CACHE_SIZE + 2
  /\ edits = 1
  /\ cache[1].uploadId # upserted[Len(upserted)].uploadId
  /\ upserted[Len(upserted)].stats = 2
  /\ AddReport(cache, upserted[Len(upserted)]) = cache

-----------------------------------------------------------------------------
(* C31: reportReady is true only while the job the observer tracks is      *)
(* shown as completed, and the statistics shown with it are those of that  *)
(* job: a new upload resets it, and the statistics response of an earlier  *)
(* job does not set it again.                                              *)

C31_ReportReadyOnlyForTracked ==
  reportReady =>
    /\ ps.status = "completed"
    /\ ps.uploadId # 0
    /\ dataStats = ps.uploadId

-----------------------------------------------------------------------------
(* C32: the report that App stores for a job carries that job's uploadId   *)
(* together with the name and size of the file that was uploaded for that  *)
(* job, also when a second upload is started before the response of the    *)
(* first has arrived.                                                      *)

C32_EntryCarriesOwnFile ==
  \A id \in IdsOf(cache) : entryFile[id] = id

-----------------------------------------------------------------------------
(* C33: a stream message whose payload is not valid JSON is never applied  *)
(* as a progress update: its dispatch leaves currentStep, progress and the *)
(* identifiers as they were and starts no statistics call; it goes to the  *)
(* error callback, after which the status is failed with an error message  *)
(* and the stream it came on is closed.                                    *)

GarbledDispatchStep(s) ==
  /\ sub[s].cli = "open"
  /\ Len(got'[s]) = Len(got[s]) + 1
  /\ got'[s][Len(got'[s])].type = "garbled"

C33_InvalidJsonFails ==
  [][\A s \in Subs :
       GarbledDispatchStep(s) =>
         /\ ps' = [ps EXCEPT !.status = "failed", !.errorMessage = ps'.errorMessage]
         /\ ps'.errorMessage # ""
         /\ sub'[s].cli = "closed"
         /\ chan'[s] = <<>>
         /\ esRef' # s
         /\ statsReq' = statsReq
         /\ UNCHANGED <<cache, reportReady, dataStats>>]_vars

C33_Witness ==
  \E s \in Subs :
    /\ HasGarbled(got[s])
    /\ got[s][Len(got[s])].type = "garbled"
    /\ Len(got[s]) > 2
    /\ ps.status = "failed"
    /\ ps.currentStep = "dedupe"
    /\ rec[sub[s].job].status = "running"

-----------------------------------------------------------------------------
(* C34: onFileUpload is called only by handleConfirmUpload with a file     *)
(* selected, and that file passed the CSV check (its type is text/csv or   *)
(* its name ends in .csv); each such confirmation calls it exactly once;   *)
(* after a confirm or a cancel no file is selected and the panel is        *)
(* hidden, so that a confirm without a new selection calls nothing.        *)

PassedCsvCheck(file) ==
  \/ file.type = "text/csv"
  \/ /\ Len(file.name) > 3
     /\ file.name[Len(file.name) - 3] = "."
     /\ file.name[Len(file.name) - 2] = "c"
     /\ file.name[Len(file.name) - 1] = "s"
     /\ file.name[Len(file.name)] = "v"

UploadCalledStep == confirmed' # confirmed

C34_UploadOnlyOnConfirm ==
  [][/\ UploadCalledStep =>
          /\ HandleConfirmUpload
          /\ selectedFile # NoFile
          /\ PassedCsvCheck(selectedFile)
          /\ confirmed' = Append(confirmed, selectedFile)
     /\ (HandleConfirmUpload \/ HandleCancelUpload) =>
          /\ selectedFile' = NoFile
          /\ ~showConfirm'
     /\ (HandleConfirmUpload /\ selectedFile = NoFile) => confirmed' = confirmed
     /\ showConfirm' <=> selectedFile' # NoFile]_vars

C34_Witness ==
  /\ Len(confirmed) = 2
  /\ selectedFile = NoFile
  /\ ~showConfirm
  /\ confirmed[1].type # "text/csv"
  /\ confirmed[2].name = <<"a", ".", "t", "x", "t">>

=============================================================================
